---- MODULE Spec2Model ----
(***************************************************************************)
(* Model of the two image-to-Base64 command line tools:                    *)
(*   img_to_base64_converter.py          (flow A, destructive)             *)
(*   scripts/img_2_base_64/img_to_base64.py (flow B, aggregating)          *)
(*                                                                         *)
(* A path is a Python str, modelled as a sequence of one-character         *)
(* strings.  A file's content is a sequence of bytes (0..255); a text file *)
(* holds the ASCII/UTF-8 bytes of the Base64 text written to it.           *)
(***************************************************************************)
EXTENDS Integers, Sequences, FiniteSets, TLC

\* --------------------------------------------------------------- bounds
\* Largest number of files present in the tree when the tool starts.
MaxFiles == 2
\* Largest number of invocations of the tool on the same tree.
MaxRuns == 2

\* ------------------------------------------------------ str operations
\* str.rfind(c) + 1: the last position of c in s, 0 when c is not in s.
rfind(s, c) ==
    LET hits == {i \in 1..Len(s) : s[i] = c}
    IN IF hits = {} THEN 0 ELSE CHOOSE i \in hits : \A j \in hits : j <= i

UpperCase == <<"A","B","C","D","E","F","G","H","I","J","K","L","M",
               "N","O","P","Q","R","S","T","U","V","W","X","Y","Z">>
LowerCase == <<"a","b","c","d","e","f","g","h","i","j","k","l","m",
               "n","o","p","q","r","s","t","u","v","w","x","y","z">>

\* str.lower()
lower(s) ==
    [i \in 1..Len(s) |->
        IF \E k \in 1..26 : UpperCase[k] = s[i]
        THEN LowerCase[CHOOSE k \in 1..26 : UpperCase[k] = s[i]]
        ELSE s[i]]

\* str.replace(old, new) for one-character old and new.
replace(s, old, new) == [i \in 1..Len(s) |-> IF s[i] = old THEN new ELSE s[i]]

\* Code point of the characters that occur in the modelled paths (str order).
ord(c) ==
    CASE c = "." -> 46
      [] c = "/" -> 47
      [] c = "1" -> 49
      [] c = "G" -> 71
      [] c = "J" -> 74
      [] c = "P" -> 80
      [] c = "\\" -> 92
      [] c = "a" -> 97
      [] c = "b" -> 98
      [] c = "c" -> 99
      [] c = "e" -> 101
      [] c = "f" -> 102
      [] c = "g" -> 103
      [] c = "i" -> 105
      [] c = "j" -> 106
      [] c = "m" -> 109
      [] c = "n" -> 110
      [] c = "o" -> 111
      [] c = "p" -> 112
      [] c = "r" -> 114
      [] c = "t" -> 116
      [] c = "w" -> 119
      [] c = "x" -> 120
      [] c = "y" -> 121

\* s < t for Python str: lexicographic by code point.
RECURSIVE StrLess(_, _)
StrLess(s, t) ==
    IF Len(t) = 0 THEN FALSE
    ELSE IF Len(s) = 0 THEN TRUE
    ELSE IF s[1] = t[1] THEN StrLess(Tail(s), Tail(t))
    ELSE ord(s[1]) < ord(t[1])

\* ---------------------------------------------------- os.path, pathlib
\* os.path.dirname (posix): everything before the last "/".
dirname(p) ==
    LET i == rfind(p, "/") IN IF i <= 1 THEN SubSeq(p, 1, i) ELSE SubSeq(p, 1, i - 1)

\* os.path.basename (posix): everything after the last "/".
basename(p) == SubSeq(p, rfind(p, "/") + 1, Len(p))

\* os.path.join(a, b) (posix).
join(a, b) ==
    IF Len(b) > 0 /\ b[1] = "/" THEN b
    ELSE IF Len(a) = 0 \/ a[Len(a)] = "/" THEN a \o b
    ELSE a \o <<"/">> \o b

\* Position of the dot that starts the extension for os.path.splitext, 0 if none:
\* the last dot of the last component, unless only dots precede it there.
ExtDot(p) ==
    LET sep == rfind(p, "/")
        dot == rfind(p, ".")
    IN IF dot > sep /\ \E k \in (sep + 1)..(dot - 1) : p[k] # "." THEN dot ELSE 0

\* os.path.splitext(p)[0]
splitext_root(p) == IF ExtDot(p) = 0 THEN p ELSE SubSeq(p, 1, ExtDot(p) - 1)

\* pathlib.Path(p).suffix
suffix(p) ==
    LET name == basename(p)
        i == rfind(name, ".")
    IN IF 1 < i /\ i < Len(name) THEN SubSeq(name, i, Len(name)) ELSE <<>>

\* path lies below directory start (start is a proper ancestor of path).
IsUnder(path, start) ==
    /\ Len(path) > Len(start) + 1
    /\ SubSeq(path, 1, Len(start)) = start
    /\ path[Len(start) + 1] = "/"

\* os.path.relpath(path, start) for a start that is an ancestor of path, the
\* only way the two tools call it.
relpath(path, start) ==
    IF IsUnder(path, start) THEN SubSeq(path, Len(start) + 2, Len(path)) ELSE path

\* ------------------------------------------------------------- base64
\* The Base64 alphabet as ASCII codes: A-Z a-z 0-9 + /
B64Char(i) ==
    IF i < 26 THEN 65 + i
    ELSE IF i < 52 THEN 71 + i
    ELSE IF i < 62 THEN i - 4
    ELSE IF i = 62 THEN 43 ELSE 47

B64Index(c) == CHOOSE i \in 0..63 : B64Char(i) = c

\* base64.b64encode(bytes).decode('utf-8'), as ASCII codes: padded, unwrapped.
RECURSIVE b64encode(_)
b64encode(b) ==
    IF Len(b) = 0 THEN <<>>
    ELSE IF Len(b) = 1 THEN
        <<B64Char(b[1] \div 4), B64Char((b[1] % 4) * 16), 61, 61>>
    ELSE IF Len(b) = 2 THEN
        <<B64Char(b[1] \div 4), B64Char((b[1] % 4) * 16 + b[2] \div 16),
          B64Char((b[2] % 16) * 4), 61>>
    ELSE
        <<B64Char(b[1] \div 4), B64Char((b[1] % 4) * 16 + b[2] \div 16),
          B64Char((b[2] % 16) * 4 + b[3] \div 64), B64Char(b[3] % 64)>>
        \o b64encode(SubSeq(b, 4, Len(b)))

\* base64.b64decode of well-formed padded text.
RECURSIVE b64decode(_)
b64decode(t) ==
    IF Len(t) < 4 THEN <<>>
    ELSE
        LET a == B64Index(t[1])
            b == B64Index(t[2])
            first == <<a * 4 + b \div 16>>
        IN IF t[3] = 61 THEN first
           ELSE LET c == B64Index(t[3])
                    second == <<(b % 16) * 16 + c \div 4>>
                IN IF t[4] = 61 THEN first \o second
                   ELSE first \o second \o <<(c % 4) * 64 + B64Index(t[4])>>
                        \o b64decode(SubSeq(t, 5, Len(t)))

\* ------------------------------------------------------------- imghdr
\* imghdr.what on the leading bytes h: the signature tests whose signature
\* fits in the modelled contents (BMP "BM", SGI 0x01 0xDA); "none" for None.
imghdr_what(h) ==
    IF Len(h) >= 2 /\ h[1] = 66 /\ h[2] = 77 THEN "bmp"
    ELSE IF Len(h) >= 2 /\ h[1] = 1 /\ h[2] = 218 THEN "rgb"
    ELSE "none"

\* ------------------------------------------------- the modelled world
\* Flow A, line 26: the extensions find_image_files and is_valid_image accept.
SUPPORTED_FORMATS ==
    {<<".","j","p","g">>,
     <<".","j","p","e","g">>,
     <<".","p","n","g">>,
     <<".","g","i","f">>,
     <<".","b","m","p">>,
     <<".","w","e","b","p">>,
     <<".","t","i","f","f">>,
     <<".","t","i","f">>,
     <<".","i","c","o">>}

\* Flow B, line 12: the narrower set of the aggregating tool.
SUPPORTED_FORMATS_B ==
    {<<".","j","p","g">>,
     <<".","j","p","e","g">>,
     <<".","p","n","g">>,
     <<".","g","i","f">>,
     <<".","b","m","p">>,
     <<".","w","e","b","p">>}

\* The scanned root, a directory that does not exist, and the --output-dir.
Root == <<"r">>
Missing == <<"m">>
OutDir == <<"o">>

\* Paths a tree may hold when flow A starts: two images sharing a stem in one
\* directory, an image of the same name in a sub-directory, and a text file.
CandidatesA ==
    {<<"r","/","a",".","p","n","g">>,
     <<"r","/","a",".","J","P","G">>,
     <<"r","/","x","/","a",".","p","n","g">>,
     <<"r","/","a",".","t","x","t">>}

\* Paths a tree may hold when flow B starts: the same name in two
\* sub-directories, a name holding a backslash, and an extension outside
\* SUPPORTED_FORMATS_B.
CandidatesB ==
    {<<"r","/","x","/","1",".","p","n","g">>,
     <<"r","/","y","/","1",".","p","n","g">>,
     <<"r","/","x","\\","1",".","p","n","g">>,
     <<"r","/","1",".","t","i","f">>}

\* File contents: a BMP, an SGI image, and text ("hi"); flow B also reads a
\* file of zero bytes.
ContentsA == {<<66, 77>>, <<1, 218, 0, 1>>, <<104, 105>>}
ContentsB == {<<>>, <<66, 77>>, <<104, 105, 33>>}

\* What shutil.disk_usage(...).free may report (0 also stands for the
\* exception path of get_free_space): the values around twice the sizes of
\* the modelled images.
FreeSpaceValues == {0, 3, 4, 7, 8}

\* The value None of an Optional[str].
None == <<-1>>

TxtExt == <<".","t","x","t">>

\* Every file system holding at most MaxFiles of the candidate paths.
FileSystems(cands, contents) ==
    UNION {[S -> contents] : S \in {T \in SUBSET cands : Cardinality(T) <= MaxFiles}}

\* All orderings of a finite set, as sequences.
Orderings(S) ==
    {f \in [1..Cardinality(S) -> S] : \A i, j \in 1..Cardinality(S) : f[i] = f[j] => i = j}

\* Every proper ancestor directory of path p.
RECURSIVE Ancestors(_)
Ancestors(p) ==
    IF rfind(p, "/") = 0 THEN {} ELSE {dirname(p)} \cup Ancestors(dirname(p))

VARIABLES
    fs,              \* the file system: path -> bytes, for the files that exist
    dirs,            \* the directories that exist
    args,            \* argparse result: directory, recursive, output_dir
    pc,              \* position of the running process
    image_files,     \* the list find_image_files / os.walk produced
    processed_files, \* loop counter of process_images / scan_directory
    failed_files,    \* failure counter of process_images
    base64_str,      \* local of the loop body
    output_path,     \* local of the loop body
    free_space,      \* what get_free_space returned for the current item
    log,             \* console: one record per item outcome, in order, over
                     \* all invocations
    exit_code,       \* process exit status, -1 while none
    disk,            \* capacity in bytes of the volume that holds the tree
    fs0,             \* the file system when the first invocation started
    dirs0,           \* the directories when the first invocation started
    runs,            \* number of invocations so far
    cut,             \* position at which the last terminated invocation stopped
    base64_dict,     \* flow B: relative path -> Base64 text
    dart_file        \* flow B: the entries written to the generated file

vars == <<fs, dirs, args, pc, image_files, processed_files, failed_files,
          base64_str, output_path, free_space, log, exit_code, disk, fs0, dirs0, runs, cut,
          base64_dict, dart_file>>

procvars == <<image_files, processed_files, failed_files, base64_str,
              output_path, free_space, log, exit_code>>
ghostvars == <<fs0, dirs0, runs, cut, args, disk>>
bvars == <<base64_dict, dart_file>>

\* ------------------------------------------------------- flow A: helpers
\* os.path.isdir
isdir(d) == d \in dirs

\* os.path.exists
exists(p) == p \in dirs \/ p \in DOMAIN fs

\* os.path.getsize
getsize(p) == Len(fs[p])

\* Bytes held by the files of f.
RECURSIVE Usage(_)
Usage(f) ==
    IF DOMAIN f = {} THEN 0
    ELSE LET p == CHOOSE q \in DOMAIN f : TRUE
         IN Len(f[p]) + Usage([q \in DOMAIN f \ {p} |-> f[q]])

\* shutil.disk_usage(...).free when nothing else uses the volume.
DiskFree == disk - Usage(fs)

\* is_valid_image: extension first, then imghdr on the content; any exception
\* while sniffing (ioerr, or a file that is gone) gives False.
is_valid_image(file_path, ioerr) ==
    /\ lower(suffix(file_path)) \in SUPPORTED_FORMATS
    /\ ~ioerr
    /\ file_path \in DOMAIN fs
    /\ imghdr_what(fs[file_path]) # "none"

\* The files os.walk(directory) visits, or os.listdir(directory) with isfile,
\* that carry an extension of `formats`.
Matching(files, directory, recursive, formats) ==
    {p \in files :
        /\ IsUnder(p, directory)
        /\ recursive \/ dirname(p) = directory
        /\ lower(suffix(p)) \in formats}

\* The orders os.walk (top-down) can produce: within one directory any order;
\* a directory's own files before those of its sub-directories; each sub-tree
\* in one piece.
IsWalkOrder(seq) ==
    /\ \A i, j \in DOMAIN seq :
          i < j => dirname(seq[j]) \notin Ancestors(dirname(seq[i]))
    /\ \A i, j, k \in DOMAIN seq :
          (i < j /\ j < k) =>
             \A d \in Ancestors(seq[i]) \cap Ancestors(seq[k]) : d \in Ancestors(seq[j])

\* find_image_files: the lists it can return for a file system.
find_image_files(files, directory, recursive) ==
    {seq \in Orderings(Matching(files, directory, recursive, SUPPORTED_FORMATS)) :
        IsWalkOrder(seq)}

\* process_images, lines 257-264: where the text of file_path goes.
OutputPath(file_path, output_dir) ==
    IF output_dir # <<>>
    THEN join(output_dir,
              splitext_root(relpath(file_path, dirname(file_path))) \o TxtExt)
    ELSE splitext_root(file_path) \o TxtExt

\* Mutant of ExitCode: the exit status ignores the failure count.
ExitCodeAlwaysZero(failed_count) == 0

\* main, line 336
ExitCode(failed_count) == IF failed_count = 0 THEN 0 ELSE 1

\* The item being processed.
file_path == image_files[processed_files]

LogEntry(kind) == [kind |-> kind, file |-> file_path]

\* f with path p holding bytes b / without path p.
WriteFile(f, p, b) == [q \in DOMAIN f \cup {p} |-> IF q = p THEN b ELSE f[q]]
DeleteFile(f, p) == [q \in DOMAIN f \ {p} |-> f[q]]


\* ------------------------------------------------------- flow A: main
\* main, lines 302-305: the directory must exist.
CheckDirectory ==
    /\ pc = "main"
    /\ IF ~isdir(args.directory)
       THEN /\ pc' = "exited"
            /\ exit_code' = 1
       ELSE /\ pc' = "outdir"
            /\ UNCHANGED exit_code
    /\ UNCHANGED <<fs, dirs, image_files, processed_files, failed_files,
                   base64_str, output_path, free_space, log,
                   ghostvars, bvars>>

\* main, lines 307-314: create the output directory when one is given and it
\* does not exist; created tells whether os.makedirs succeeded.
CheckOutputDir(created) ==
    /\ pc = "outdir"
    /\ IF args.output_dir # <<>> /\ ~exists(args.output_dir)
       THEN IF created
            THEN /\ dirs' = dirs \cup {args.output_dir}
                 /\ pc' = "find"
                 /\ UNCHANGED exit_code
            ELSE /\ pc' = "exited"
                 /\ exit_code' = 1
                 /\ UNCHANGED dirs
       ELSE /\ pc' = "find"
            /\ UNCHANGED <<dirs, exit_code>>
    /\ UNCHANGED <<fs, image_files, processed_files, failed_files,
                   base64_str, output_path, free_space, log,
                   ghostvars, bvars>>

\* main, lines 318-328: scan; return 0 when nothing was found, else enter
\* process_images (lines 227-230).
FindImageFiles ==
    /\ pc = "find"
    /\ \E found \in find_image_files(DOMAIN fs, args.directory, args.recursive) :
          /\ image_files' = found
          /\ IF found = <<>>
             THEN /\ pc' = "exited"
                  /\ exit_code' = 0
             ELSE /\ pc' = "loop"
                  /\ UNCHANGED exit_code
    /\ processed_files' = 0
    /\ failed_files' = 0
    /\ UNCHANGED <<fs, dirs, base64_str, output_path, free_space, log, ghostvars, bvars>>

\* ------------------------------------------- flow A: process_images
\* line 232-233: take the next file of the list.
LoopNext ==
    /\ pc = "loop"
    /\ processed_files < Len(image_files)
    /\ processed_files' = processed_files + 1
    /\ pc' = "validate"
    /\ UNCHANGED <<fs, dirs, image_files, failed_files, base64_str, output_path, free_space,
                   log, exit_code, ghostvars, bvars>>

\* Mutant of CountFailure: the failure is reported but not counted.
CountFailureSilently(kind) ==
    /\ failed_files' = failed_files
    /\ log' = Append(log, LogEntry(kind))
    /\ pc' = "loop"
    /\ UNCHANGED <<image_files, processed_files, exit_code>>

\* The item failed: count it, report it, go on with the next item
\* (failed_files += 1, then continue or fall through to the progress display).
CountFailure(kind) ==
    /\ failed_files' = failed_files + 1
    /\ log' = Append(log, LogEntry(kind))
    /\ pc' = "loop"
    /\ UNCHANGED <<image_files, processed_files, exit_code>>

\* lines 239-243
Validate(ioerr) ==
    /\ pc = "validate"
    /\ IF is_valid_image(file_path, ioerr)
       THEN /\ pc' = "space"
            /\ UNCHANGED <<image_files, processed_files, failed_files, log, exit_code>>
       ELSE CountFailure("invalid")
    /\ UNCHANGED <<fs, dirs, base64_str, output_path, free_space, ghostvars, bvars>>

\* lines 245-249: free is what get_free_space returned.
CheckSpace(free) ==
    /\ pc = "space"
    /\ free_space' = free
    /\ IF free < getsize(file_path) * 2
       THEN CountFailure("nospace")
       ELSE /\ pc' = "read"
            /\ UNCHANGED <<image_files, processed_files, failed_files, log, exit_code>>
    /\ UNCHANGED <<fs, dirs, base64_str, output_path, ghostvars, bvars>>

\* lines 251-264: read and encode (readable tells whether open/read raised),
\* then determine the output path.
Convert(readable) ==
    /\ pc = "read"
    /\ IF readable /\ file_path \in DOMAIN fs
       THEN /\ base64_str' = b64encode(fs[file_path])
            /\ output_path' = OutputPath(file_path, args.output_dir)
            /\ pc' = "save"
            /\ UNCHANGED <<image_files, processed_files, failed_files, log, exit_code>>
       ELSE /\ base64_str' = None
            /\ UNCHANGED output_path
            /\ CountFailure("readerr")
    /\ UNCHANGED <<fs, dirs, free_space, ghostvars, bvars>>

\* Mutant of AfterSave: the original is removed whatever the write returned.
AfterSaveAlwaysRemoves(saved) == "remove"

\* lines 266-275: what follows save_base64_to_file returning saved.
AfterSave(saved) == IF saved THEN "remove" ELSE "loop"

\* Mutant of SaveFailed: a failed write ends the whole run.
SaveFailedAborts ==
    /\ failed_files' = failed_files + 1
    /\ log' = Append(log, LogEntry("writeerr"))
    /\ pc' = "exited"
    /\ exit_code' = 1
    /\ UNCHANGED <<image_files, processed_files>>

\* save_base64_to_file returned False (lines 274-275).
SaveFailed ==
    /\ failed_files' = failed_files + 1
    /\ log' = Append(log, LogEntry("writeerr"))
    /\ pc' = AfterSave(FALSE)
    /\ UNCHANGED <<image_files, processed_files, exit_code>>

\* Mutant of SaveOpen: the original is deleted when the text file is opened,
\* before its content is written.
SaveOpenDeletesFirst(opened) ==
    /\ pc = "save"
    /\ IF opened
       THEN /\ dirs' = dirs \cup {dirname(output_path)} \cup Ancestors(dirname(output_path))
            /\ fs' = DeleteFile(WriteFile(fs, output_path, <<>>), file_path)
            /\ pc' = "write"
            /\ UNCHANGED <<image_files, processed_files, failed_files, log, exit_code>>
       ELSE /\ SaveFailed
            /\ UNCHANGED <<fs, dirs>>
    /\ UNCHANGED <<base64_str, output_path, free_space, ghostvars, bvars>>

\* save_base64_to_file, lines 105-109: os.makedirs and open(output_path, 'w');
\* opening creates or truncates the file.  opened tells whether both succeeded.
SaveOpen(opened) ==
    /\ pc = "save"
    /\ IF opened
       THEN /\ dirs' = dirs \cup {dirname(output_path)} \cup Ancestors(dirname(output_path))
            /\ fs' = WriteFile(fs, output_path, <<>>)
            /\ pc' = "write"
            /\ UNCHANGED <<image_files, processed_files, failed_files, log, exit_code>>
       ELSE /\ SaveFailed
            /\ UNCHANGED <<fs, dirs>>
    /\ UNCHANGED <<base64_str, output_path, free_space, ghostvars, bvars>>

\* save_base64_to_file, lines 110-123: f.write and close; when it raises
\* (e.g. errno 28) the truncated file stays.
SaveWrite(written) ==
    /\ pc = "write"
    /\ IF written
       THEN /\ fs' = WriteFile(fs, output_path, base64_str)
            /\ pc' = AfterSave(TRUE)
            /\ UNCHANGED <<image_files, processed_files, failed_files, log, exit_code>>
       ELSE /\ SaveFailed
            /\ UNCHANGED fs
    /\ UNCHANGED <<dirs, base64_str, output_path, free_space, ghostvars, bvars>>

\* Mutant of RemoveFailed: a failed delete is reported but the item is not
\* counted as failed.
RemoveFailedNotCounted ==
    /\ failed_files' = failed_files
    /\ log' = Append(log, LogEntry("delerr"))
    /\ pc' = "loop"
    /\ UNCHANGED <<image_files, processed_files, exit_code>>

\* remove_file returned False (lines 271-273): "partial success".
RemoveFailed == CountFailure("delerr")

\* lines 269-273 with remove_file (lines 136-144); removed tells whether
\* os.remove succeeded.
Remove(removed) ==
    /\ pc = "remove"
    /\ IF removed /\ file_path \in DOMAIN fs
       THEN /\ fs' = DeleteFile(fs, file_path)
            /\ log' = Append(log, LogEntry("ok"))
            /\ pc' = "loop"
            /\ UNCHANGED <<image_files, processed_files, failed_files, exit_code>>
       ELSE /\ RemoveFailed
            /\ UNCHANGED fs
    /\ UNCHANGED <<dirs, base64_str, output_path, free_space, ghostvars, bvars>>

\* line 290 and main, lines 328-336: the list is exhausted; the process exits.
Return ==
    /\ pc = "loop"
    /\ processed_files = Len(image_files)
    /\ exit_code' = ExitCode(failed_files)
    /\ pc' = "exited"
    /\ UNCHANGED <<fs, dirs, image_files, processed_files, failed_files,
                   base64_str, output_path, free_space, log,
                   ghostvars, bvars>>

\* ------------------------------------------- termination, re-invocation
Running == pc \notin {"exited", "killed"}

\* The process is terminated from outside; an open file stays as it is.
Interrupt ==
    /\ Running
    /\ pc' = "killed"
    /\ cut' = pc
    /\ UNCHANGED <<fs, dirs, procvars, fs0, dirs0, runs, args, disk, bvars>>

\* The operator runs the same command line again on the same tree.
Reinvoke ==
    /\ pc = "killed"
    /\ runs < MaxRuns
    /\ runs' = runs + 1
    /\ pc' = "main"
    /\ image_files' = <<>>
    /\ processed_files' = 0
    /\ failed_files' = 0
    /\ base64_str' = None
    /\ output_path' = <<>>
    /\ free_space' = 0
    /\ exit_code' = -1
    /\ UNCHANGED <<fs, dirs, log, fs0, dirs0, cut, args, disk, bvars>>

\* ---------------------------------------------------- specifications
InitProcess ==
    /\ image_files = <<>>
    /\ processed_files = 0
    /\ failed_files = 0
    /\ base64_str = None
    /\ output_path = <<>>
    /\ free_space = 0
    /\ log = <<>>
    /\ exit_code = -1
    /\ runs = 1
    /\ cut = "none"
    /\ base64_dict = <<>>
    /\ dart_file = [written |-> FALSE, entries |-> <<>>]

\* Free bytes the volume may have when the first invocation starts.
DiskFreeAtStart == {4, 32}

\* A tree of at most MaxFiles candidate files and a command line.
InitTree(withOut) ==
    /\ fs0 \in FileSystems(CandidatesA, ContentsA)
    /\ fs = fs0
    /\ dirs0 = {Root} \cup {dirname(p) : p \in DOMAIN fs0}
                      \cup (IF withOut THEN {OutDir} ELSE {})
    /\ dirs = dirs0
    /\ args \in [directory : {Root, Missing}, recursive : BOOLEAN,
                 output_dir : {<<>>, OutDir}]
    /\ pc = "main"
    /\ InitProcess

\* Flow A starts on any tree, with or without an existing output directory,
\* for any command line.  The free space and the I/O outcomes are whatever
\* the environment gives at each step, so the capacity plays no part.
Init ==
    /\ \E withOut \in BOOLEAN : InitTree(withOut)
    /\ disk = Usage(fs0)

Next ==
    \/ CheckDirectory
    \/ \E created \in BOOLEAN : CheckOutputDir(created)
    \/ FindImageFiles
    \/ LoopNext
    \/ \E ioerr \in BOOLEAN : Validate(ioerr)
    \/ \E free \in FreeSpaceValues : CheckSpace(free)
    \/ \E readable \in BOOLEAN : Convert(readable)
    \/ \E opened \in BOOLEAN : SaveOpen(opened)
    \/ \E written \in BOOLEAN : SaveWrite(written)
    \/ \E removed \in BOOLEAN : Remove(removed)
    \/ Return

Spec == Init /\ [][Next]_vars

\* Flow A alone on a volume of fixed capacity, with no I/O fault other than
\* a full volume: an invocation may be terminated at any point and the same
\* command run again, up to MaxRuns invocations.
InitResume ==
    /\ InitTree(FALSE)
    /\ args.directory = Root
    /\ args.recursive
    /\ disk \in {Usage(fs0) + free : free \in DiskFreeAtStart}

NextResume ==
    \/ CheckDirectory
    \/ CheckOutputDir(TRUE)
    \/ FindImageFiles
    \/ LoopNext
    \/ Validate(FALSE)
    \/ CheckSpace(DiskFree)
    \/ Convert(TRUE)
    \/ SaveOpen(TRUE)
    \/ SaveWrite(DiskFree >= Len(base64_str))
    \/ Remove(TRUE)
    \/ Return
    \/ Interrupt
    \/ Reinvoke

SpecResume == InitResume /\ [][NextResume]_vars

\* ------------------------------------------------------------ flow B
\* is_image_file, line 16
is_image_file(name) == lower(suffix(name)) \in SUPPORTED_FORMATS_B

\* The lists of files the os.walk of scan_directory can meet, in order.
scan_order(files, directory) ==
    {seq \in Orderings({p \in files : IsUnder(p, directory) /\ is_image_file(basename(p))}) :
        IsWalkOrder(seq)}

\* scan_directory, lines 38-40: the key of a file.
relative_path(path, directory) == replace(relpath(path, directory), "\\", "/")

\* Flow B's convert_to_base64, lines 18-25: "" when reading raised.
convert_to_base64_B(path, readable) ==
    IF readable /\ path \in DOMAIN fs THEN b64encode(fs[path]) ELSE <<>>

\* dict assignment d[k] = v
DictSet(d, k, v) == [q \in DOMAIN d \cup {k} |-> IF q = k THEN v ELSE d[q]]

\* sorted(keys), line 67
sorted(keys) ==
    CHOOSE seq \in Orderings(keys) :
        \A i, j \in DOMAIN seq : i < j => StrLess(seq[i], seq[j])

\* The status of a script that ends by returning from main() (lines 99-100:
\* main() is called without sys.exit, whatever it returns).
ScriptExitStatus == 0

\* main, lines 84-86
BCheckDirectory ==
    /\ pc = "b_main"
    /\ IF ~isdir(args.directory)
       THEN /\ pc' = "exited"
            /\ exit_code' = ScriptExitStatus
       ELSE /\ pc' = "b_scan"
            /\ UNCHANGED exit_code
    /\ UNCHANGED <<fs, dirs, image_files, processed_files, failed_files,
                   base64_str, output_path, free_space, log,
                   ghostvars, bvars>>

\* scan_directory, lines 29-34: count the images, start the walk.
BScan ==
    /\ pc = "b_scan"
    /\ image_files' \in scan_order(DOMAIN fs, args.directory)
    /\ processed_files' = 0
    /\ base64_dict' = <<>>
    /\ pc' = "b_loop"
    /\ UNCHANGED <<fs, dirs, failed_files, base64_str, output_path, free_space, log,
                   exit_code, ghostvars, dart_file>>

\* scan_directory, lines 36-46: one image file.
BProcessFile(readable) ==
    /\ pc = "b_loop"
    /\ processed_files < Len(image_files)
    /\ LET path == image_files[processed_files + 1]
           key == relative_path(path, args.directory)
           text == convert_to_base64_B(path, readable)
       IN /\ base64_str' = text
          /\ base64_dict' = IF text # <<>> THEN DictSet(base64_dict, key, text)
                            ELSE base64_dict
          /\ log' = Append(log, [kind |-> IF readable THEN "ok" ELSE "readerr",
                                 file |-> path])
    /\ processed_files' = processed_files + 1
    /\ UNCHANGED <<fs, dirs, image_files, failed_files, output_path, free_space, exit_code,
                   pc, ghostvars, dart_file>>

\* scan_directory, lines 53-54, and main, lines 91-93.
BScanDone ==
    /\ pc = "b_loop"
    /\ processed_files = Len(image_files)
    /\ IF DOMAIN base64_dict = {}
       THEN /\ pc' = "exited"
            /\ exit_code' = ScriptExitStatus
       ELSE /\ pc' = "b_generate"
            /\ UNCHANGED exit_code
    /\ UNCHANGED <<fs, dirs, image_files, processed_files, failed_files,
                   base64_str, output_path, free_space, log,
                   ghostvars, bvars>>

\* generate_dart_file, lines 58-74, and the end of main; generated tells
\* whether writing the file succeeded (an exception is caught and reported).
BGenerate(generated) ==
    /\ pc = "b_generate"
    /\ dart_file' =
          IF generated
          THEN [written |-> TRUE,
                entries |-> [i \in 1..Cardinality(DOMAIN base64_dict) |->
                               <<sorted(DOMAIN base64_dict)[i],
                                 base64_dict[sorted(DOMAIN base64_dict)[i]]>>]]
          ELSE dart_file
    /\ pc' = "exited"
    /\ exit_code' = ScriptExitStatus
    /\ UNCHANGED <<fs, dirs, image_files, processed_files, failed_files,
                   base64_str, output_path, free_space, log,
                   ghostvars, base64_dict>>

\* Flow B starts on any tree of at most MaxFiles candidate files.
InitB ==
    /\ fs0 \in FileSystems(CandidatesB, ContentsB)
    /\ fs = fs0
    /\ dirs0 = {Root} \cup {dirname(p) : p \in DOMAIN fs0}
    /\ dirs = dirs0
    /\ args \in [directory : {Root, Missing}, recursive : {TRUE}, output_dir : {<<>>}]
    /\ disk = Usage(fs0)
    /\ pc = "b_main"
    /\ InitProcess

NextB ==
    \/ BCheckDirectory
    \/ BScan
    \/ \E readable \in BOOLEAN : BProcessFile(readable)
    \/ BScanDone
    \/ \E generated \in BOOLEAN : BGenerate(generated)

SpecB == InitB /\ [][NextB]_vars

\* =============================================================== claims
\* The last record of the console log.
LastLog == log[Len(log)]

\* C1: in the destructive flow an original is deleted only after the write of
\* its text file completed: whenever the run is about to call remove_file, the
\* output path holds the complete encoding of the original, and every
\* original that is gone has a text file at its output path.
C1_WriteBeforeDelete ==
    /\ pc = "remove" =>
          /\ file_path \in DOMAIN fs
          /\ output_path \in DOMAIN fs
          /\ fs[output_path] = b64encode(fs[file_path])
    /\ \A p \in DOMAIN fs0 \ DOMAIN fs :
          OutputPath(p, args.output_dir) \in DOMAIN fs

\* C1 witness: an original has been deleted by the run.
C1_Witness ==
    /\ DOMAIN fs0 \ DOMAIN fs # {}
    /\ Len(log) > 0
    /\ LastLog.kind = "ok"

\* C2: at the end of a destructive run, for every file reported as a success,
\* decoding the text file at its output path gives back the original bytes.
C2_RoundTrip ==
    pc = "exited" =>
       \A i \in DOMAIN log :
          log[i].kind = "ok" =>
             LET out == OutputPath(log[i].file, args.output_dir)
             IN /\ out \in DOMAIN fs
                /\ b64decode(fs[out]) = fs0[log[i].file]

\* C3: the output path is the source path with the extension replaced by
\* .txt, or, with an output directory, that directory followed by the
\* source's path relative to the scanned root with the extension replaced;
\* sources in different directories never share an output path.
C3_OutputPathKeepsStructure ==
    /\ pc \in {"save", "write", "remove"} =>
          output_path =
             IF args.output_dir # <<>>
             THEN join(args.output_dir,
                       splitext_root(relpath(file_path, args.directory)) \o TxtExt)
             ELSE splitext_root(file_path) \o TxtExt
    /\ \A i, j \in DOMAIN image_files :
          dirname(image_files[i]) # dirname(image_files[j]) =>
             OutputPath(image_files[i], args.output_dir)
                # OutputPath(image_files[j], args.output_dir)

\* C4: an item that fails validation, the free-space check or the read is
\* counted as exactly one failure and leaves every file and directory as it
\* was; an item whose content is no image always fails validation, and an
\* item fails the free-space check exactly when the free space reported is
\* less than twice its size.
C4_FailedChecksTouchNothing ==
    [][
        /\ (pc \in {"validate", "space", "read"} /\ pc' = "loop") =>
             /\ failed_files' = failed_files + 1
             /\ processed_files' = processed_files
             /\ Len(log') = Len(log) + 1
             /\ log'[Len(log')].kind \in {"invalid", "nospace", "readerr"}
             /\ log'[Len(log')].file = file_path
             /\ fs' = fs
             /\ dirs' = dirs
        /\ (pc \in {"validate", "space", "read"} /\ pc' # "loop") =>
             /\ failed_files' = failed_files
             /\ log' = log
        /\ (pc = "validate" /\ imghdr_what(fs[file_path]) = "none") => pc' = "loop"
        /\ pc = "space" => (pc' = "loop" <=> free_space' < Len(fs[file_path]) * 2)
    ]_vars

\* C4 witness: one item failed the free-space check and one failed to be read,
\* and the tree is as it was.
C4_Witness ==
    /\ \E i \in DOMAIN log : log[i].kind = "nospace"
    /\ \E i \in DOMAIN log : log[i].kind = "readerr"
    /\ fs = fs0
    /\ failed_files = 2

\* C5: when process_images has returned, every file of the list was processed
\* exactly once, in list order, succeeded + failed is the length of the list,
\* and failed is the number of items that hit an error.
C5_EveryItemCounted ==
    pc = "exited" =>
       /\ Len(log) = Len(image_files)
       /\ \A i \in DOMAIN log : log[i].file = image_files[i]
       /\ failed_files = Cardinality({i \in DOMAIN log : log[i].kind # "ok"})
       /\ processed_files - failed_files
             = Cardinality({i \in DOMAIN log : log[i].kind = "ok"})
       /\ processed_files = Len(image_files)

\* C5 witness: a run of two items ended, the first item failed to be written
\* and the second one succeeded.
C5_Witness ==
    /\ pc = "exited"
    /\ Len(log) = 2
    /\ log[1].kind = "writeerr"
    /\ log[2].kind = "ok"

\* C6: when the text file was written and deleting the original then fails,
\* the item is counted as failed, the text file stays with its content and
\* the original stays.
C6_PartialSuccess ==
    [][(pc = "remove" /\ pc' = "loop" /\ file_path \in DOMAIN fs') =>
          /\ failed_files' = failed_files + 1
          /\ Len(log') = Len(log) + 1
          /\ log'[Len(log')].kind = "delerr"
          /\ output_path \in DOMAIN fs'
          /\ fs'[output_path] = b64encode(fs'[file_path])
          /\ fs' = fs
      ]_vars

\* C6 witness: the last item was written but could not be deleted.
C6_Witness ==
    /\ Len(log) > 0
    /\ LastLog.kind = "delerr"
    /\ LastLog.file \in DOMAIN fs
    /\ failed_files > 0

\* C7: the destructive tool exits with 0 exactly when the run went through
\* with no failed item (which includes finding no image), and with 1
\* otherwise, including a missing directory and an output directory that
\* could not be created.
C7_ExitCode ==
    pc = "exited" =>
       /\ exit_code \in {0, 1}
       /\ exit_code = 0 <=>
             /\ isdir(args.directory)
             /\ args.output_dir # <<>> => isdir(args.output_dir)
             /\ Len(log) = Len(image_files)
             /\ \A i \in DOMAIN log : log[i].kind = "ok"

\* C7 witness: a run in which an item failed has exited with 1.
C7_Witness ==
    /\ pc = "exited"
    /\ exit_code = 1
    /\ \E i \in DOMAIN log : log[i].kind # "ok"

\* C8: when the root directory does not exist the run ends before any file is
\* read, written or deleted, and the exit status is not zero (stated here for
\* the aggregating flow).
C8_MissingDirectoryExitsNonZero ==
    (pc = "exited" /\ ~isdir(args.directory)) =>
       /\ exit_code # 0
       /\ fs = fs0
       /\ log = <<>>
       /\ ~dart_file.written

\* C9: in the aggregating flow the keys of the map are exactly the relative
\* paths, with forward slashes, of the image files that could be read, one
\* key per file, each with the Base64 text of its file; the generated file
\* lists them in ascending order.
C9_KeysAreExactlyTheImages ==
    (pc = "exited" /\ isdir(args.directory)) =>
       LET images == {log[i].file : i \in {k \in DOMAIN log : log[k].kind = "ok"}}
           key(p) == relative_path(p, args.directory)
       IN /\ DOMAIN base64_dict = {key(p) : p \in images}
          /\ Cardinality(DOMAIN base64_dict) = Cardinality(images)
          /\ \A p \in images :
                key(p) \in DOMAIN base64_dict => base64_dict[key(p)] = b64encode(fs0[p])
          /\ dart_file.written =>
                /\ {e[1] : e \in {dart_file.entries[i] : i \in DOMAIN dart_file.entries}}
                      = DOMAIN base64_dict
                /\ \A i, j \in DOMAIN dart_file.entries :
                      i < j => StrLess(dart_file.entries[i][1], dart_file.entries[j][1])

\* The file system an uninterrupted destructive run over the list `order`
\* ends with when it starts from item i on file system f, on the same volume:
\* an item that is no image or fails the free-space check is skipped, an item
\* whose text does not fit leaves a truncated text file, any other item is
\* replaced by its text file.
RECURSIVE UninterruptedRun(_, _, _)
UninterruptedRun(f, order, i) ==
    IF i > Len(order) THEN f
    ELSE LET p == order[i]
             out == OutputPath(p, args.output_dir)
             text == b64encode(f[p])
             opened == WriteFile(f, out, <<>>)
         IN IF imghdr_what(f[p]) = "none" \/ disk - Usage(f) < Len(f[p]) * 2
            THEN UninterruptedRun(f, order, i + 1)
            ELSE IF disk - Usage(opened) < Len(text)
            THEN UninterruptedRun(opened, order, i + 1)
            ELSE UninterruptedRun(DeleteFile(WriteFile(f, out, text), p), order, i + 1)

\* The file systems an uninterrupted run on the initial tree can end with.
UninterruptedFinals ==
    {UninterruptedRun(fs0, order, 1) :
        order \in find_image_files(DOMAIN fs0, args.directory, args.recursive)}

\* No invocation ever lists a text file written by the tool as an image.
TextFilesNotDiscovered ==
    \A i \in DOMAIN image_files :
       /\ image_files[i] \in DOMAIN fs0
       /\ lower(suffix(image_files[i])) # TxtExt

AmpleSpace ==
    LET images == {p \in Matching(DOMAIN fs0, args.directory, args.recursive,
                                  SUPPORTED_FORMATS) : imghdr_what(fs0[p]) # "none"}
        texts == [p \in images |-> b64encode(fs0[p])]
    IN \A p \in images : disk - Usage(fs0) >= Usage(texts) + Len(fs0[p]) * 2

====
